---- MODULE Spec2Model ----
(***************************************************************************)
(* State-machine model of bot.py (telegram-discount-bot): monitor() run    *)
(* after run against one persisted state file.                             *)
(*                                                                         *)
(* Prices are fixed-point numbers in thousandths of a sol (100.004 is      *)
(* 100004); a price rendered with "{:.2f}" is a number of cents.  The drop *)
(* percentage is compared with the threshold in exact arithmetic; for the  *)
(* prices of the model and the threshold 50 the float expression of the    *)
(* source gives the same comparison.                                       *)
(***************************************************************************)
EXTENDS Integers, Sequences, FiniteSets, TLC

\* ------------------------------------------------------------------ bounds
MaxRuns == 4
MaxCap == 2
MaxLen == 4
MaxIdLen == 2
MaxBlocks == 3
MaxItems == 2

\* ------------------------------------------------------- program constants
DROP_THRESHOLD == 50

\* SITES: configured sites, in configuration order (two of the four).
SITES == <<"mercadolibre", "falabella">>

\* The identifiers stable_id can give to the products of each site: the
\* site is part of the digest input, so the sites' identifiers are disjoint.
SiteIds == [mercadolibre |-> {"a"}, falabella |-> {"b"}]

Ids == UNION {SiteIds[SITES[i]] : i \in 1..Len(SITES)}

\* The prices extract_products can hand over for the products of each site
\* (price_pen > 0), in thousandths.
SitePrices == [mercadolibre |-> {40000, 50000, 60000, 100000, 100004},
               falabella |-> {40000, 100000}]

Prices == UNION {SitePrices[SITES[i]] : i \in 1..Len(SITES)}


VARIABLES
  disk,            \* the state file: absent, JSON of a state root, or corrupt
  cap,             \* MAX_ALERTS_PER_RUN, read from the environment
  pc,              \* position of monitor(): "idle", "sites", "send"
  runs,            \* runs that loaded the state so far; the clock (time.time())
  siteIdx,         \* index in SITES of the site the for loop is at
  known_products,  \* monitor()'s known_products
  alerts_sent,     \* monitor()'s alerts_sent (the ledger)
  alerts,          \* monitor()'s alerts, in acceptance order
  sendIdx,         \* index in alerts[:cap] of the next send
  outcome,         \* how the last run ended
  decisions,       \* per observed product of this run: the branch taken
  attempts,        \* alerts whose send was attempted in this run
  sentRun,         \* alerts delivered in this run
  sentCount,       \* per transition key: deliveries over all runs
  acceptedTotal,   \* per transition key: acceptances in completed runs
  capped,          \* keys accepted in a completed run and cut by the cap
  trail,           \* per identifier: the decline observed so far
  alertedRaw,      \* (identifier, old, new) as observed, of the alerts
                   \* accepted in completed runs
  trace,           \* the steps of this run, in the order they were taken
  arg,             \* the input of the function under study
  res              \* its result

vars == <<disk, cap, pc, runs, siteIdx, known_products, alerts_sent,
          alerts, sendIdx, outcome, decisions, attempts, sentRun, sentCount,
          acceptedTotal, capped, trail, alertedRaw, trace, arg, res>>

\* ---------------------------------------------------------------- helpers

\* "{:.2f}".format(p): the price in cents, rounded to nearest.
Fmt2(p) == (p + 5) \div 10

AlertKey_Unrounded(id, old, new) == <<id, old, new>>

\* alert_key = f"{product_id}:{old_price:.2f}->{price_pen:.2f}"
AlertKey(id, old, new) == <<id, Fmt2(old), Fmt2(new)>>

Keys ==
  UNION {{<<id, Fmt2(o), Fmt2(n)>> :
            id \in SiteIds[SITES[i]], o \in SitePrices[SITES[i]],
            n \in SitePrices[SITES[i]]} : i \in 1..Len(SITES)}

Truncated_NoCap(as, c) == as

\* alerts[:MAX_ALERTS_PER_RUN]
Truncated(as, c) == SubSeq(as, 1, IF Len(as) < c THEN Len(as) ELSE c)

Range(s) == {s[i] : i \in 1..Len(s)}

\* old_price <= 0 or product.price_pen >= old_price
NoDrop(old, new) == old <= 0 \/ new >= old

BelowThreshold_Strict(old, new) == (old - new) * 100 <= DROP_THRESHOLD * old

\* drop_pct < DROP_THRESHOLD, with drop_pct = (old - new) / old * 100
BelowThreshold(old, new) == (old - new) * 100 < DROP_THRESHOLD * old

Suppressed_Never(ledger, key) == FALSE

\* alert_key in alerts_sent
Suppressed(ledger, key) == key \in DOMAIN ledger

\* load_state(): the state root, or the empty one when there is no file.
EmptyLedger == [k \in {} |-> 0]

EmptyProducts == [i \in {} |-> 0]

EmptyRoot == [products |-> EmptyProducts, alerts_sent |-> EmptyLedger,
              last_run |-> 0]

\* The state file: file is "missing", "json" or "corrupt"; root is what a
\* "json" file holds.
NoFile == [file |-> "missing", root |-> EmptyRoot]
CorruptFile == [file |-> "corrupt", root |-> EmptyRoot]
JsonFile(root) == [file |-> "json", root |-> root]

load_state_WithoutLedger ==
  IF disk.file = "missing" THEN EmptyRoot
  ELSE [disk.root EXCEPT !.alerts_sent = EmptyLedger]

load_state == IF disk.file = "missing" THEN EmptyRoot ELSE disk.root

\* d with d[k] = v (a dict assignment).
Put(d, k, v) == [x \in DOMAIN d \cup {k} |-> IF x = k THEN v ELSE d[x]]

RecordAccepted_Forgotten(ledger, key, now) == ledger

\* alerts_sent[alert_key] = now
RecordAccepted(ledger, key, now) == Put(ledger, key, now)

\* prev = known_products.get(product.product_id); "not prev"
IsFirst(known, id) == id \notin DOMAIN known

\* float(prev.get("last_price", 0))
OldPrice(known, id) == IF IsFirst(known, id) THEN 0 ELSE known[id].last_price

Entry(product, site, now) ==
  [site |-> site, last_price |-> product.price, updated_at |-> now]

\* The assignment made with setdefault: an existing entry is kept.
Track_SetDefault(known, product, site, now) ==
  IF IsFirst(known, product.id)
    THEN Put(known, product.id, Entry(product, site, now))
    ELSE known

\* The assignment made after "if drop_pct < DROP_THRESHOLD: continue".
Track_AfterThreshold(known, product, site, now) ==
  IF /\ ~IsFirst(known, product.id)
     /\ ~NoDrop(OldPrice(known, product.id), product.price)
     /\ BelowThreshold(OldPrice(known, product.id), product.price)
    THEN known
    ELSE Put(known, product.id, Entry(product, site, now))

\* The assignment made after "if not prev: continue".
Track_AfterFirst(known, product, site, now) ==
  IF IsFirst(known, product.id)
    THEN known
    ELSE Put(known, product.id, Entry(product, site, now))

\* known_products[product.product_id] = {...}, for every observed product.
Track(known, product, site, now) ==
  Put(known, product.id, Entry(product, site, now))

\* One iteration of "for product in products" in monitor().  st carries
\* known_products, alerts_sent, alerts and the log of the branches taken.
ProcessProduct(st, product, site, now) ==
  LET old_price == OldPrice(st.known, product.id)
      known2 == Track(st.known, product, site, now)
      key == AlertKey(product.id, old_price, product.price)
      entry(b) == [id |-> product.id, old |-> old_price,
                   new |-> product.price, branch |-> b]
      skip(b) == [st EXCEPT !.known = known2, !.log = Append(@, entry(b))]
  IN  IF IsFirst(st.known, product.id) THEN skip("first")
      ELSE IF NoDrop(old_price, product.price) THEN skip("nodrop")
      ELSE IF BelowThreshold(old_price, product.price) THEN skip("small")
      ELSE IF Suppressed(st.ledger, key) THEN skip("suppressed")
      ELSE [known |-> known2,
            ledger |-> RecordAccepted(st.ledger, key, now),
            alerts |-> Append(st.alerts, key),
            log |-> Append(st.log, entry("accepted"))]

RECURSIVE ProcessProducts(_, _, _, _)
ProcessProducts(st, products, site, now) ==
  IF products = <<>> THEN st
  ELSE ProcessProducts(ProcessProduct(st, Head(products), site, now),
                       Tail(products), site, now)

\* The lists extract_products can return for a site: records with distinct
\* identifiers of that site, in any order of appearance.
RECURSIVE Listings(_, _)
Listings(ids, prices) ==
  {<<>>} \cup
  UNION {{<<[id |-> i, price |-> p]>> \o rest :
            p \in prices, rest \in Listings(ids \ {i}, prices)} : i \in ids}

\* ------------------------------------------------------------------- Init
Init ==
  /\ disk = NoFile
  /\ cap \in 1..MaxCap
  /\ pc = "idle"
  /\ runs = 0
  /\ siteIdx = 1
  /\ known_products = EmptyProducts
  /\ alerts_sent = EmptyLedger
  /\ alerts = <<>>
  /\ sendIdx = 1
  /\ outcome = "none"
  /\ decisions = <<>>
  /\ attempts = <<>>
  /\ sentRun = <<>>
  /\ sentCount = [k \in Keys |-> 0]
  /\ acceptedTotal = [k \in Keys |-> 0]
  /\ capped = {}
  /\ trail = EmptyProducts
  /\ alertedRaw = {}
  /\ trace = <<>>
  /\ arg = <<>>
  /\ res = <<>>

\* ---------------------------------------------------------------- actions

\* The decline of one identifier, as observed: the first and the last
\* observed price while every re-observation so far was a drop below the
\* threshold relative to the observation before it, Broken otherwise.
Broken == [first |-> 0, last |-> 0, slow |-> FALSE]

Observe(tr, product) ==
  IF product.id \notin DOMAIN tr
    THEN [first |-> product.price, last |-> product.price, slow |-> TRUE]
    ELSE LET t == tr[product.id]
         IN  IF /\ t.slow
                /\ product.price < t.last
                /\ (t.last - product.price) * 100 < DROP_THRESHOLD * t.last
               THEN [first |-> t.first, last |-> product.price, slow |-> TRUE]
               ELSE Broken

RECURSIVE ObserveAll(_, _)
ObserveAll(tr, products) ==
  IF products = <<>> THEN tr
  ELSE ObserveAll(Put(tr, Head(products).id, Observe(tr, Head(products))),
                  Tail(products))

\* A run that ends before its save is not a completed run: it breaks every
\* decline over consecutive completed runs.
BreakAll(tr) == [i \in DOMAIN tr |-> Broken]

history == <<sentCount, acceptedTotal, capped, trail, alertedRaw, arg, res>>
memory == <<known_products, alerts_sent, alerts, decisions>>
sending == <<sendIdx, attempts, sentRun>>

\* The process is gone: nothing of monitor()'s memory is left.
Exit ==
  /\ pc' = "idle"
  /\ known_products' = EmptyProducts
  /\ alerts_sent' = EmptyLedger
  /\ alerts' = <<>>
  /\ decisions' = <<>>
  /\ siteIdx' = 1
  /\ sendIdx' = 1
  /\ attempts' = <<>>
  /\ sentRun' = <<>>
  /\ trace' = <<>>

\* The credentials tested after load_state() instead of before it.
ConfigError_AfterLoad ==
  /\ pc = "idle"
  /\ disk.file # "corrupt"
  /\ pc' = "idle"
  /\ known_products' = load_state.products
  /\ alerts_sent' = load_state.alerts_sent
  /\ alerts' = <<>>
  /\ decisions' = <<>>
  /\ siteIdx' = 1
  /\ sendIdx' = 1
  /\ attempts' = <<>>
  /\ sentRun' = <<>>
  /\ trace' = <<>>
  /\ outcome' = "config_error"
  /\ UNCHANGED <<disk, cap, runs, history>>

\* monitor() lines 202-206: a credential is missing or empty, RuntimeError.
ConfigError ==
  /\ pc = "idle"
  /\ Exit
  /\ outcome' = "config_error"
  /\ UNCHANGED <<disk, cap, runs, history>>

\* monitor() line 208 on a state file that is not JSON: json.loads raises.
LoadFail ==
  /\ pc = "idle"
  /\ disk.file = "corrupt"
  /\ Exit
  /\ outcome' = "load_failed"
  /\ UNCHANGED <<disk, cap, runs, history>>

\* monitor() lines 202-211: credentials present, the state is loaded.
StartRun ==
  /\ pc = "idle"
  /\ runs < MaxRuns
  /\ disk.file # "corrupt"
  /\ runs' = runs + 1
  /\ pc' = "sites"
  /\ outcome' = "running"
  /\ known_products' = load_state.products
  /\ alerts_sent' = load_state.alerts_sent
  /\ alerts' = <<>>
  /\ decisions' = <<>>
  /\ siteIdx' = 1
  /\ sendIdx' = 1
  /\ attempts' = <<>>
  /\ sentRun' = <<>>
  /\ trace' = <<>>
  /\ UNCHANGED <<disk, cap, history>>

\* After the last site the for loop of line 213 ends and the sends begin.
AfterSite ==
  /\ siteIdx' = siteIdx + 1
  /\ pc' = IF siteIdx = Len(SITES) THEN "send" ELSE "sites"

\* The fetch failure handled with "break": the remaining sites are dropped.
FetchFail_Break ==
  /\ pc = "sites"
  /\ siteIdx' = Len(SITES) + 1
  /\ pc' = "send"
  /\ trace' = Append(trace, [kind |-> "skip", site |-> SITES[siteIdx]])
  /\ UNCHANGED <<disk, cap, runs, outcome, memory, sending, history>>

\* monitor() lines 215-220: the fetch of the site raises, the site is skipped.
FetchFail ==
  /\ pc = "sites"
  /\ AfterSite
  /\ trace' = Append(trace, [kind |-> "skip", site |-> SITES[siteIdx]])
  /\ UNCHANGED <<disk, cap, runs, outcome, memory, sending, history>>

\* The site step with save_state called at the end of every site.
ProcessSite_SavesEachSite ==
  /\ pc = "sites"
  /\ \E products \in Listings(SiteIds[SITES[siteIdx]],
                           SitePrices[SITES[siteIdx]]) :
       LET st == ProcessProducts([known |-> known_products,
                                  ledger |-> alerts_sent,
                                  alerts |-> alerts,
                                  log |-> decisions],
                                 products, SITES[siteIdx], runs)
       IN  /\ known_products' = st.known
           /\ alerts_sent' = st.ledger
           /\ alerts' = st.alerts
           /\ decisions' = st.log
           /\ trail' = ObserveAll(trail, products)
           /\ disk' = JsonFile([products |-> st.known,
                                 alerts_sent |-> st.ledger, last_run |-> runs])
  /\ AfterSite
  /\ trace' = Append(trace, [kind |-> "fetch", site |-> SITES[siteIdx]])
  /\ UNCHANGED <<cap, runs, outcome, sending, sentCount, acceptedTotal,
                 capped, alertedRaw, arg, res>>

\* monitor() lines 222-260: the site is fetched and its products processed.
ProcessSite ==
  /\ pc = "sites"
  /\ \E products \in Listings(SiteIds[SITES[siteIdx]],
                           SitePrices[SITES[siteIdx]]) :
       LET st == ProcessProducts([known |-> known_products,
                                  ledger |-> alerts_sent,
                                  alerts |-> alerts,
                                  log |-> decisions],
                                 products, SITES[siteIdx], runs)
       IN  /\ known_products' = st.known
           /\ alerts_sent' = st.ledger
           /\ alerts' = st.alerts
           /\ decisions' = st.log
           /\ trail' = ObserveAll(trail, products)
  /\ AfterSite
  /\ trace' = Append(trace, [kind |-> "fetch", site |-> SITES[siteIdx]])
  /\ UNCHANGED <<disk, cap, runs, outcome, sending, sentCount, acceptedTotal,
                 capped, alertedRaw, arg, res>>

\* The send made as soon as the alert is found, inside the loop of the sites.
SendOk_DuringSites ==
  /\ pc \in {"sites", "send"}
  /\ sendIdx <= Len(Truncated(alerts, cap))
  /\ attempts' = Append(attempts, alerts[sendIdx])
  /\ sentRun' = Append(sentRun, alerts[sendIdx])
  /\ sentCount' = [sentCount EXCEPT ![alerts[sendIdx]] = @ + 1]
  /\ sendIdx' = sendIdx + 1
  /\ trace' = Append(trace, [kind |-> "send", site |-> "-"])
  /\ UNCHANGED <<disk, cap, pc, runs, siteIdx, outcome, memory,
                 acceptedTotal, capped, trail, alertedRaw, arg, res>>

\* monitor() lines 262-264: one send of the truncated list succeeds.
SendOk ==
  /\ pc = "send"
  /\ sendIdx <= Len(Truncated(alerts, cap))
  /\ attempts' = Append(attempts, alerts[sendIdx])
  /\ sentRun' = Append(sentRun, alerts[sendIdx])
  /\ sentCount' = [sentCount EXCEPT ![alerts[sendIdx]] = @ + 1]
  /\ sendIdx' = sendIdx + 1
  /\ trace' = Append(trace, [kind |-> "send", site |-> "-"])
  /\ UNCHANGED <<disk, cap, pc, runs, siteIdx, outcome, memory,
                 acceptedTotal, capped, trail, alertedRaw, arg, res>>

\* send_telegram_message raises (requests.post fails or raise_for_status):
\* nothing in monitor() catches it, the run ends there.  A timeout may come
\* after the message was delivered.
SendFail ==
  /\ pc = "send"
  /\ sendIdx <= Len(Truncated(alerts, cap))
  /\ attempts' = Append(attempts, alerts[sendIdx])
  /\ \E delivered \in BOOLEAN :
       IF delivered
         THEN /\ sentRun' = Append(sentRun, alerts[sendIdx])
              /\ sentCount' = [sentCount EXCEPT ![alerts[sendIdx]] = @ + 1]
         ELSE UNCHANGED <<sentRun, sentCount>>
  /\ pc' = "idle"
  /\ outcome' = "send_failed"
  /\ trail' = BreakAll(trail)
  /\ trace' = Append(trace, [kind |-> "send", site |-> "-"])
  /\ UNCHANGED <<disk, cap, runs, siteIdx, sendIdx, memory, acceptedTotal,
                 capped, alertedRaw, arg, res>>

\* The keys of this run's alerts that the cap cut off.
CutOff == {alerts[i] : i \in (Len(Truncated(alerts, cap)) + 1)..Len(alerts)}

\* monitor() lines 266-269: the state root is written.
Save ==
  /\ pc = "send"
  /\ sendIdx > Len(Truncated(alerts, cap))
  /\ disk' = JsonFile([products |-> known_products,
                        alerts_sent |-> alerts_sent, last_run |-> runs])
  /\ pc' = "idle"
  /\ outcome' = "completed"
  /\ acceptedTotal' = [k \in Keys |->
                         acceptedTotal[k]
                           + Cardinality({i \in 1..Len(alerts) : alerts[i] = k})]
  /\ capped' = capped \cup CutOff
  /\ alertedRaw' = alertedRaw \cup
       {<<decisions[i].id, decisions[i].old, decisions[i].new>> :
          i \in {j \in 1..Len(decisions) : decisions[j].branch = "accepted"}}
  /\ trace' = Append(trace, [kind |-> "save", site |-> "-"])
  /\ UNCHANGED <<cap, runs, siteIdx, memory, sending, sentCount, trail,
                 arg, res>>

\* save_state raises: the file is as it was (mkdir or open failed) or holds
\* a partial write.
SaveFail ==
  /\ pc = "send"
  /\ sendIdx > Len(Truncated(alerts, cap))
  /\ disk' \in {disk, CorruptFile}
  /\ Exit
  /\ outcome' = "save_failed"
  /\ trail' = BreakAll(trail)
  /\ UNCHANGED <<cap, runs, sentCount, acceptedTotal, capped, alertedRaw,
                 arg, res>>

\* The process is terminated from outside between two steps of a run.
Terminate ==
  /\ pc \in {"sites", "send"}
  /\ Exit
  /\ outcome' = "terminated"
  /\ trail' = BreakAll(trail)
  /\ UNCHANGED <<disk, cap, runs, sentCount, acceptedTotal, capped,
                 alertedRaw, arg, res>>

Next ==
  \/ ConfigError
  \/ LoadFail
  \/ StartRun
  \/ FetchFail
  \/ ProcessSite
  \/ SendOk
  \/ SendFail
  \/ Save
  \/ SaveFail
  \/ Terminate

Spec == Init /\ [][Next]_vars

TypeOK ==
  /\ pc \in {"idle", "sites", "send"}
  /\ runs \in 0..MaxRuns
  /\ cap \in 1..MaxCap

\* -------------------------------------------------------- pure functions
\* The variables of monitor(), at rest while one function is applied to arg.
monitorVars == <<disk, cap, pc, runs, siteIdx, known_products, alerts_sent,
                 alerts, sendIdx, outcome, decisions, attempts, sentRun,
                 sentCount, acceptedTotal, capped, trail, alertedRaw, trace>>

AtRest ==
  /\ disk = NoFile
  /\ cap = 1
  /\ pc = "idle"
  /\ runs = 0
  /\ siteIdx = 1
  /\ known_products = EmptyProducts
  /\ alerts_sent = EmptyLedger
  /\ alerts = <<>>
  /\ sendIdx = 1
  /\ outcome = "none"
  /\ decisions = <<>>
  /\ attempts = <<>>
  /\ sentRun = <<>>
  /\ sentCount = [k \in Keys |-> 0]
  /\ acceptedTotal = [k \in Keys |-> 0]
  /\ capped = {}
  /\ trail = EmptyProducts
  /\ alertedRaw = {}
  /\ trace = <<>>

\* A str is a sequence of one-character strings.
Count(s, c) == Cardinality({i \in 1..Len(s) : s[i] = c})

\* str.rfind for a one-character needle: the last index (from 0), or -1.
rfind(s, c) ==
  IF Count(s, c) = 0 THEN -1
  ELSE (CHOOSE i \in 1..Len(s) :
          s[i] = c /\ \A j \in (i + 1)..Len(s) : s[j] # c) - 1

\* str.replace for a one-character needle.
RECURSIVE replace(_, _, _)
replace(s, old, new) ==
  IF s = <<>> THEN <<>>
  ELSE (IF Head(s) = old THEN new ELSE <<Head(s)>>)
         \o replace(Tail(s), old, new)

Digits == <<"0", "1", "2", "3", "4", "5", "6", "7", "8", "9">>

\* \d of the pattern, for the characters of the model.
IsDigit(c) == c \in Range(Digits)

DigitVal(c) == (CHOOSE i \in 1..Len(Digits) : Digits[i] = c) - 1

RECURSIVE Num(_)
Num(ds) ==
  IF ds = <<>> THEN 0
  ELSE Num(SubSeq(ds, 1, Len(ds) - 1)) * 10 + DigitVal(ds[Len(ds)])

\* A float read from decimal text is num / 10^scale.
None == [ok |-> FALSE, num |-> 0, scale |-> 0]
Value(num, scale) == [ok |-> TRUE, num |-> num, scale |-> scale]

\* float(cleaned) for text made of digits, commas and periods: digits with
\* at most one period and at least one digit, ValueError otherwise.
float(s) ==
  IF /\ \A i \in 1..Len(s) : IsDigit(s[i]) \/ s[i] = "."
     /\ Count(s, ".") <= 1
     /\ \E i \in 1..Len(s) : IsDigit(s[i])
  THEN Value(Num(SelectSeq(s, IsDigit)),
             IF Count(s, ".") = 1 THEN Len(s) - 1 - rfind(s, ".") ELSE 0)
  ELSE None

parse_price_FirstSeparator(value) ==
  LET cleaned == SelectSeq(value, LAMBDA c : IsDigit(c) \/ c \in {",", "."})
  IN  IF cleaned = <<>> THEN None
      ELSE float(
        IF Count(cleaned, ",") > 0 /\ Count(cleaned, ".") > 0
        THEN IF rfind(cleaned, ",") < rfind(cleaned, ".")
             THEN replace(replace(cleaned, ".", <<>>), ",", <<".">>)
             ELSE replace(cleaned, ",", <<>>)
        ELSE IF Count(cleaned, ",") = 1 THEN replace(cleaned, ",", <<".">>)
        ELSE IF Count(cleaned, ".") > 1 THEN replace(cleaned, ".", <<>>)
        ELSE cleaned)

parse_price(value) ==
  LET cleaned == SelectSeq(value, LAMBDA c : IsDigit(c) \/ c \in {",", "."})
  IN  IF cleaned = <<>> THEN None
      ELSE float(
        IF Count(cleaned, ",") > 0 /\ Count(cleaned, ".") > 0
        THEN IF rfind(cleaned, ",") > rfind(cleaned, ".")
             THEN replace(replace(cleaned, ".", <<>>), ",", <<".">>)
             ELSE replace(cleaned, ",", <<>>)
        ELSE IF Count(cleaned, ",") = 1 THEN replace(cleaned, ",", <<".">>)
        ELSE IF Count(cleaned, ".") > 1 THEN replace(cleaned, ".", <<>>)
        ELSE cleaned)

\* Price texts: every text of at most MaxLen characters over PriceChars, and
\* the texts the documentation names.
PriceChars == {"0", "1", ",", ".", "a", "-"}
Text_S_1c234p56 == <<"S", "/", " ", "1", ",", "2", "3", "4", ".", "5", "6">>
Text_1p234c56 == <<"1", ".", "2", "3", "4", ",", "5", "6">>
Text_99 == <<"9", "9">>
Text_1p234 == <<"1", ".", "2", "3", "4">>
Text_abc == <<"a", "b", "c">>
PriceTexts ==
  UNION {[1..n -> PriceChars] : n \in 0..MaxLen}
    \cup {Text_S_1c234p56, Text_1p234c56, Text_99, Text_1p234, Text_abc}

InitPrice ==
  /\ arg \in PriceTexts
  /\ res = <<>>
  /\ AtRest

ParsePrice ==
  /\ res = <<>>
  /\ res' = <<parse_price(arg)>>
  /\ UNCHANGED <<arg, monitorVars>>

NextPrice == ParsePrice

SpecPrice == InitPrice /\ [][NextPrice]_vars

\* ---------------------------------------------------------------- stable_id
\* str.strip and str.lower, for the characters of the model.
RECURSIVE lstrip(_)
lstrip(s) == IF s # <<>> /\ Head(s) = " " THEN lstrip(Tail(s)) ELSE s

RECURSIVE rstrip(_)
rstrip(s) ==
  IF s # <<>> /\ s[Len(s)] = " " THEN rstrip(SubSeq(s, 1, Len(s) - 1)) ELSE s

strip(s) == rstrip(lstrip(s))

lower(s) == [i \in 1..Len(s) |-> IF s[i] = "A" THEN "a" ELSE s[i]]

\* url.split('?')[0]: the text before the first question mark.
RECURSIVE BeforeQuery(_)
BeforeQuery(url) ==
  IF url = <<>> \/ Head(url) = "?" THEN <<>>
  ELSE <<Head(url)>> \o BeforeQuery(Tail(url))

\* f"{site}|{title.strip().lower()}|{url.split('?')[0]}"; the site name is
\* one element of the text.
canonical(site, title, url) ==
  <<site, "|">> \o lower(strip(title)) \o <<"|">> \o BeforeQuery(url)

\* The first 24 hexadecimal digits of the SHA-256 digest, taken as free of
\* collisions: one digest per text.
hexdigest(text) == <<"sha256", text>>

stable_id(site, title, url) == hexdigest(canonical(site, title, url))

TitleChars == {"a", "A", " ", "|"}
UrlChars == {"a", "|", "?"}
IdInputs ==
  [site : Range(SITES),
   title : UNION {[1..n -> TitleChars] : n \in 0..MaxIdLen},
   url : UNION {[1..n -> UrlChars] : n \in 0..MaxIdLen}]

InitId ==
  /\ arg \in IdInputs
  /\ res = <<>>
  /\ AtRest

StableId ==
  /\ res = <<>>
  /\ res' = <<stable_id(arg.site, arg.title, arg.url)>>
  /\ UNCHANGED <<arg, monitorVars>>

NextId == StableId

SpecId == InitId /\ [][NextId]_vars

\* --------------------------------------------------------- extract_products
\* A selector is a tag with or without a class; an element of the markup
\* has a tag and a class ("" for none).
Sel(tag, cls) == [tag |-> tag, cls |-> cls]

SITE_PRODUCT_SELECTORS ==
  [hm |-> <<Sel("article", "product-item"), Sel("li", "product-item"),
            Sel("article", ""), Sel("li", "")>>]

GenericSelectors == <<Sel("article", ""), Sel("li", ""), Sel("div", "")>>

\* SITE_PRODUCT_SELECTORS.get(site, ["article", "li", "div"])
SelectorsOf(site) ==
  IF site \in DOMAIN SITE_PRODUCT_SELECTORS
    THEN SITE_PRODUCT_SELECTORS[site]
    ELSE GenericSelectors

Matches(selector, element) ==
  /\ selector.tag = element.tag
  /\ selector.cls = "" \/ selector.cls = element.cls

\* soup.select(selector): the matching blocks, in document order.  A block
\* is named by its position in the markup, as id(block) names the object.
select(html, selector) ==
  SelectSeq([i \in 1..Len(html) |-> i],
            LAMBDA i : Matches(selector, html[i].element))

\* urljoin(base_url, href) for a relative href.
urljoin(base_url, href) == <<base_url>> \o href

\* One pass of "for block in soup.select(selector)"; st.full is the break.
RECURSIVE ScanBlocks(_, _, _, _, _)
ScanBlocks(st, site, html, blocks, max) ==
  IF blocks = <<>> THEN st
  ELSE
    LET block_id == Head(blocks)
        block == html[block_id]
        st1 == [st EXCEPT !.seen_blocks = @ \cup {block_id},
                          !.processed = Append(@, block_id)]
        price == parse_price(block.raw_price)
        url == urljoin("base", block.href)
        product == [site |-> site,
                    product_id |-> stable_id(site, block.title, url),
                    title |-> block.title,
                    price_pen |-> price,
                    url |-> url]
        st2 == [st1 EXCEPT !.products = Append(@, product)]
    IN  IF block_id \in st.seen_blocks
          THEN ScanBlocks(st, site, html, Tail(blocks), max)
        ELSE IF block.title = <<>> \/ block.raw_price = <<>> \/ block.href = <<>>
          THEN ScanBlocks(st1, site, html, Tail(blocks), max)
        ELSE IF ~price.ok \/ price.num <= 0
          THEN ScanBlocks(st1, site, html, Tail(blocks), max)
        ELSE IF Len(st2.products) >= max
          THEN st2
        ELSE ScanBlocks(st2, site, html, Tail(blocks), max)

\* "for selector in selectors", with the break after the inner loop.
RECURSIVE ScanSelectors(_, _, _, _, _)
ScanSelectors(st, site, html, selectors, max) ==
  IF selectors = <<>> THEN st
  ELSE
    LET st1 == ScanBlocks(st, site, html, select(html, Head(selectors)), max)
    IN  IF Len(st1.products) >= max THEN st1
        ELSE ScanSelectors(st1, site, html, Tail(selectors), max)

\* deduped.setdefault(product.product_id, product), then the dict's values.
RECURSIVE Deduped(_, _)
Deduped(products, kept) ==
  IF products = <<>> THEN kept
  ELSE Deduped(Tail(products),
               IF \E i \in 1..Len(kept) :
                    kept[i].product_id = Head(products).product_id
                 THEN kept
                 ELSE Append(kept, Head(products)))

\* extract_products(site, html, base_url) under MAX_ITEMS_PER_SITE = max:
\* the list returned, with the list before deduplication and the blocks
\* read, in the order they were read.
extract_products(site, html, max) ==
  LET st == ScanSelectors([products |-> <<>>, seen_blocks |-> {},
                           processed |-> <<>>],
                          site, html, SelectorsOf(site), max)
  IN  [records |-> Deduped(st.products, <<>>),
       products |-> st.products,
       processed |-> st.processed]

\* The blocks of the markup: an element and what the title, price and link
\* selectors pick in it.
Elements ==
  {Sel("article", "product-item"), Sel("li", "product-item"),
   Sel("article", ""), Sel("li", "")}

Picks ==
  {[title |-> <<"a">>, raw_price |-> <<"1">>, href |-> <<"a">>],
   [title |-> <<"A">>, raw_price |-> <<"1", "0">>, href |-> <<"a", "?">>],
   [title |-> <<"a">>, raw_price |-> <<"1">>, href |-> <<"b">>],
   [title |-> <<>>, raw_price |-> <<"1">>, href |-> <<"a">>],
   [title |-> <<"a">>, raw_price |-> <<>>, href |-> <<"a">>],
   [title |-> <<"a">>, raw_price |-> <<"a">>, href |-> <<"a">>],
   [title |-> <<"a">>, raw_price |-> <<"0">>, href |-> <<"a">>],
   [title |-> <<"a">>, raw_price |-> <<"1">>, href |-> <<>>]}

Blocks ==
  {[element |-> e, title |-> p.title, raw_price |-> p.raw_price,
    href |-> p.href] : e \in Elements, p \in Picks}

Markups == UNION {[1..n -> Blocks] : n \in 0..MaxBlocks}

\* MAX_ITEMS_PER_SITE = int(os.getenv("MAX_ITEMS_PER_SITE", "60"))
ItemCaps == 0..MaxItems

InitExtract ==
  /\ arg \in [site : {"hm"}, html : Markups, max : ItemCaps]
  /\ res = <<>>
  /\ AtRest

ExtractProducts ==
  /\ res = <<>>
  /\ res' = <<extract_products(arg.site, arg.html, arg.max)>>
  /\ UNCHANGED <<arg, monitorVars>>

NextExtract == ExtractProducts

SpecExtract == InitExtract /\ [][NextExtract]_vars

\* ------------------------------------------------------------- properties

Idle == pc = "idle"
Completed == pc = "idle" /\ outcome = "completed"
InRun == pc \in {"sites", "send"}

Decisions == Range(decisions)
KeyOf(d) == AlertKey(d.id, d.old, d.new)
Candidate(d) == d.branch \in {"accepted", "suppressed"}

\* The ledger as persisted (empty when there is no state file).
PersistedLedger == DOMAIN disk.root.alerts_sent

\* C1: a transition key is accepted as an alert at most once over the
\* completed runs; an alert of a run never has a key of the ledger the run
\* loaded, and no key twice.
C1_AcceptedOnce ==
  /\ \A k \in Keys : acceptedTotal[k] <= 1
  /\ InRun =>
       /\ \A i \in 1..Len(alerts) : alerts[i] \notin DOMAIN load_state.alerts_sent
       /\ \A i, j \in 1..Len(alerts) : alerts[i] = alerts[j] => i = j

\* The transition accepted in an earlier completed run is observed again in
\* this completed run, and suppressed.
C1_Witness ==
  /\ Completed
  /\ \E d \in Decisions :
       d.branch = "suppressed" /\ acceptedTotal[KeyOf(d)] = 1 /\ alerts = <<>>

\* C2: over all runs, completed or ended early, a notification for one
\* (identifier, old price, new price) drop is delivered at most once.
C2_NeverResent == \A k \in Keys : sentCount[k] <= 1

\* C3: when a run's send of an alert fails, the sends of the rest of the
\* truncated list are still attempted: a run that reached its sends ends with
\* one attempt for each alert of the truncated list.
C3_AllAttempted ==
  (Idle /\ outcome \in {"completed", "send_failed"})
    => attempts = Truncated(alerts, cap)

\* C4: after a run in which a send failed, the state is persisted and the
\* persisted ledger has the key of every alert accepted in that run.
C4_FailureContained ==
  (Idle /\ outcome = "send_failed")
    => /\ disk.file = "json"
       /\ disk.root.last_run = runs
       /\ \A k \in Range(alerts) : k \in PersistedLedger

C6_PriceTracked ==
  Completed =>
    \A d \in Decisions :
      /\ d.id \in DOMAIN disk.root.products
      /\ disk.root.products[d.id].last_price = d.new

\* A completed run with a suppressed drop and an accepted one.
C6_Witness ==
  /\ Completed
  /\ \E d \in Decisions : d.branch = "suppressed"
  /\ \E d \in Decisions : d.branch = "accepted"

\* The keys of one identifier.
KeysOf(id) == {k \in Keys : k[1] = id}

\* C7: an identifier whose every re-observation, over completed runs, was a
\* drop below the threshold relative to the observation before it has no
\* alert: none accepted, none in a ledger, none sent.
C7_SlowDeclineSilent ==
  \A id \in DOMAIN trail :
    trail[id].slow =>
      \A k \in KeysOf(id) :
        /\ acceptedTotal[k] = 0
        /\ sentCount[k] = 0
        /\ k \notin Range(alerts)
        /\ k \notin DOMAIN alerts_sent
        /\ k \notin PersistedLedger

\* A decline in two or more steps whose drop from the first observed price
\* is at or above the threshold, after a completed run.
C7_Witness ==
  /\ Completed
  /\ \E id \in DOMAIN trail :
       /\ trail[id].slow
       /\ (trail[id].first - trail[id].last) * 100
            >= DROP_THRESHOLD * trail[id].first
       /\ \E d \in Decisions : d.id = id /\ d.branch = "small"

\* C8: the first observation of an identifier the loaded state does not
\* track creates its entry with the observed price, and adds no alert and no
\* ledger entry for it.
C8_FirstObservation ==
  InRun =>
    \A d \in Decisions :
      d.id \notin DOMAIN load_state.products =>
        /\ d.id \in DOMAIN known_products
        /\ known_products[d.id].last_price = d.new
        /\ \A k \in KeysOf(d.id) :
             k \notin Range(alerts) /\ k \notin DOMAIN alerts_sent

\* A first observation at the lowest price, in a run that accepted an alert
\* for another product.
C8_Witness ==
  /\ InRun
  /\ alerts # <<>>
  /\ \E d \in Decisions :
       d.id \notin DOMAIN load_state.products /\ d.new = 40000

\* C9: a run attempts at most cap sends; a completed run delivered the first
\* cap alerts in acceptance order, and every accepted alert, cut or not, is in
\* the persisted ledger.
C9_CapAndLedger ==
  /\ Len(attempts) <= cap
  /\ Completed =>
       /\ sentRun = Truncated(alerts, cap)
       /\ Len(sentRun) = (IF Len(alerts) < cap THEN Len(alerts) ELSE cap)
       /\ \A k \in Range(alerts) : k \in PersistedLedger

\* A completed run that accepted more alerts than the cap.
C9_Witness == Completed /\ Len(alerts) > cap

\* C10: a key accepted in a completed run and cut by the cap is never sent
\* afterwards.
C10_CappedNeverSent ==
  [][\A k \in capped : sentCount'[k] = sentCount[k]]_vars

\* The transition cut by the cap was observed again in this completed run
\* (the price had returned to the old value) and no notification went out.
C10_Witness ==
  /\ Completed
  /\ \E d \in Decisions :
       d.branch = "suppressed" /\ KeyOf(d) \in capped /\ sentCount[KeyOf(d)] = 0

\* The site steps of the run so far, and the sites whose fetch failed.
SiteSteps == SelectSeq(trace, LAMBDA e : e.kind \in {"skip", "fetch"})
Skipped == {e.site : e \in {x \in Range(trace) : x.kind = "skip"}}

\* C11: a failed fetch skips that site only: the sites are visited one by
\* one in configuration order whether a fetch fails or not, the sends start
\* after every site had its step, the tracked entries of a skipped site are
\* as loaded, and a run with a skipped site that completes has sent its
\* alerts and persisted its state.
C11_FetchFailureSkipsSite ==
  /\ \A i \in 1..Len(SiteSteps) : SiteSteps[i].site = SITES[i]
  /\ pc = "sites" => Len(SiteSteps) = siteIdx - 1
  /\ pc = "send" => Len(SiteSteps) = Len(SITES)
  /\ InRun =>
       \A s \in Skipped : \A id \in SiteIds[s] :
         /\ \A d \in Decisions : d.id # id
         /\ id \in DOMAIN known_products <=> id \in DOMAIN load_state.products
         /\ id \in DOMAIN known_products
              => known_products[id] = load_state.products[id]
  /\ (Completed /\ Skipped # {}) =>
       /\ Len(SiteSteps) = Len(SITES)
       /\ sentRun = Truncated(alerts, cap)
       /\ \A k \in Range(alerts) : k \in PersistedLedger
       /\ disk.root.last_run = runs
       /\ disk.root.products = known_products

\* The first site's fetch failed; the second site was processed, its alert
\* was accepted and sent, and the run persisted its state.
C11_Witness ==
  /\ Completed
  /\ Len(trace) >= 2
  /\ trace[1].kind = "skip"
  /\ trace[2].kind = "fetch"
  /\ \E d \in Decisions : d.branch = "accepted" /\ KeyOf(d) \in Range(sentRun)
  /\ "a" \in DOMAIN disk.root.products

\* Every send of the truncated list has been made.
SendsDone == pc = "send" /\ sendIdx > Len(Truncated(alerts, cap))

\* C12: the state file changes only in the step that ends a run after all
\* its sends (the save); no step of a run before that, and no run that is
\* terminated or ended by a failed send, changes it; the save of a completed
\* run writes the whole state root of that run.
C12_WrittenOnceAtEnd ==
  [][/\ disk' # disk =>
          SendsDone /\ pc' = "idle" /\ outcome' \in {"completed", "save_failed"}
     /\ outcome' \in {"terminated", "send_failed", "config_error",
                      "load_failed"} => disk' = disk
     /\ pc' \in {"sites", "send"} => disk' = disk
     /\ (pc = "send" /\ outcome' = "completed") =>
          disk' = JsonFile([products |-> known_products,
                            alerts_sent |-> alerts_sent, last_run |-> runs])
    ]_vars

\* The last point of a run before its save: prices and ledger changed in
\* memory, a notification sent, and the state file still as the previous
\* completed run wrote it.
C12_Witness ==
  /\ SendsDone
  /\ sentRun # <<>>
  /\ disk.file = "json"
  /\ disk.root.last_run < runs
  /\ disk.root.products # known_products
  /\ disk.root.alerts_sent # alerts_sent

\* C13: a run without its credentials ends before anything else happens:
\* no state is loaded, no site is fetched, no notification is sent and the
\* state file is not written.
C13_MissingCredentials ==
  [][outcome' = "config_error" =>
       /\ pc' = "idle"
       /\ known_products' = EmptyProducts
       /\ alerts_sent' = EmptyLedger
       /\ trace' = <<>>
       /\ decisions' = <<>>
       /\ attempts' = <<>>
       /\ sentCount' = sentCount
       /\ disk' = disk
       /\ runs' = runs
    ]_vars

\* A run without credentials, while the state file holds tracked products
\* and a ledger.
C13_Witness ==
  /\ outcome = "config_error"
  /\ disk.file = "json"
  /\ PersistedLedger # {}
  /\ DOMAIN disk.root.products # {}

\* A re-observation whose drop is at or above the threshold.
OverThreshold(d) ==
  /\ d.branch # "first"
  /\ d.old > 0
  /\ d.new < d.old
  /\ (d.old - d.new) * 100 >= DROP_THRESHOLD * d.old

\* A price in cents, as two decimals show it.
Cents(p) == (p + 5) \div 10

\* C14, as stated: a drop over the threshold is accepted as a new alert
\* exactly when its (old, new) pair differs from every pair alerted before
\* for that identifier, and a repeat of an alerted pair is suppressed.
C14_AnyOtherPairAlertable ==
  InRun =>
    \A d \in Decisions :
      OverThreshold(d) =>
        (d.branch = "accepted" <=> <<d.id, d.old, d.new>> \notin alertedRaw)

\* C14, amended: the pairs are compared as rendered with two decimals.
C14_OtherRenderedPairAlertable ==
  InRun =>
    \A d \in Decisions :
      OverThreshold(d) =>
        /\ d.branch \in {"accepted", "suppressed"}
        /\ d.branch = "suppressed" <=>
             \E r \in alertedRaw :
               /\ r[1] = d.id
               /\ Cents(r[2]) = Cents(d.old)
               /\ Cents(r[3]) = Cents(d.new)

\* After 100.00 to 40.00 was alerted, a drop of the same identifier to a
\* different price is accepted as a new alert.
C14_Witness ==
  /\ InRun
  /\ \E d \in Decisions :
       /\ d.branch = "accepted"
       /\ <<d.id, 100000, 40000>> \in alertedRaw
       /\ Cents(d.new) # 4000

\* The text left after stripping, and the separators in it.
Stripped(t) == SelectSeq(t, LAMBDA c : IsDigit(c) \/ c = "," \/ c = ".")
Separators(t) == SelectSeq(t, LAMBDA c : c = "," \/ c = ".")
Other(sep) == IF sep = "," THEN "." ELSE ","

\* The separators resolved by position, rule by rule.
Resolved(t) ==
  LET commas == Count(t, ",")
      periods == Count(t, ".")
      later == Separators(t)[Len(Separators(t))]
  IN  IF commas > 0 /\ periods > 0
      THEN [i \in 1..Len(SelectSeq(t, LAMBDA c : c # Other(later))) |->
              IF SelectSeq(t, LAMBDA c : c # Other(later))[i] = later
              THEN "."
              ELSE SelectSeq(t, LAMBDA c : c # Other(later))[i]]
      ELSE IF commas = 1 /\ periods = 0
      THEN [i \in 1..Len(t) |-> IF t[i] = "," THEN "." ELSE t[i]]
      ELSE IF periods > 1 /\ commas = 0
      THEN SelectSeq(t, LAMBDA c : c # ".")
      ELSE t

\* C15: parse_price strips what is not a digit, comma or period, resolves
\* the separators by position and reads the result as a decimal number; the
\* named texts give 1234.56, 1234.56, 99.0 and 1.234, "" and "abc" are
\* rejected, and no result is negative.
C15_ParsePrice ==
  res # <<>> =>
    /\ res[1] = IF Stripped(arg) = <<>> THEN None
                ELSE float(Resolved(Stripped(arg)))
    /\ arg = Text_S_1c234p56 => res[1] = Value(123456, 2)
    /\ arg = Text_1p234c56 => res[1] = Value(123456, 2)
    /\ arg = Text_99 => res[1] = Value(99, 0)
    /\ arg = Text_1p234 => res[1] = Value(1234, 3)
    /\ arg \in {<<>>, Text_abc} => res[1] = None
    /\ res[1].num >= 0

\* "1.234,56" was parsed: the later separator, the comma, is the decimal
\* point.
C15_Witness ==
  /\ res # <<>>
  /\ arg = Text_1p234c56
  /\ res[1] = Value(123456, 2)

\* C16: two inputs get the same identifier exactly when they have the same
\* site, the same trimmed lower-cased title and the same URL up to the query
\* string.
C16_IdentityOfTriple ==
  res # <<>> =>
    \A o \in IdInputs :
      stable_id(o.site, o.title, o.url) = res[1]
        <=> /\ o.site = arg.site
            /\ lower(strip(o.title)) = lower(strip(arg.title))
            /\ BeforeQuery(o.url) = BeforeQuery(arg.url)

PersistedJson == disk.file = "json"
PersistedLedgerMap == IF PersistedJson THEN disk.root.alerts_sent ELSE EmptyLedger

\* Every key of ledger a is in ledger b, with the timestamp it has in a.
Keeps(a, b) == \A k \in DOMAIN a : k \in DOMAIN b /\ b[k] = a[k]

\* C17: ledger entries are write-once.  The ledger of a run starts from the
\* persisted one, a step of a run removes no key and overwrites no
\* timestamp, and a write of the state file keeps every persisted entry, so
\* the persisted keys only grow from one completed run to the next.
C17_LedgerWriteOnce ==
  [][/\ (InRun /\ pc' \in {"sites", "send"}) => Keeps(alerts_sent, alerts_sent')
     /\ (pc = "idle" /\ pc' = "sites") => Keeps(PersistedLedgerMap, alerts_sent')
     /\ (PersistedJson /\ disk'.file = "json") =>
          /\ Keeps(PersistedLedgerMap, disk'.root.alerts_sent)
          /\ DOMAIN PersistedLedgerMap \subseteq DOMAIN disk'.root.alerts_sent
    ]_vars

\* A completed run whose persisted ledger holds an entry of an earlier run,
\* with its earlier timestamp, next to an entry written in this run.
C17_Witness ==
  /\ Completed
  /\ \E k1, k2 \in DOMAIN disk.root.alerts_sent :
       /\ disk.root.alerts_sent[k1] < runs
       /\ disk.root.alerts_sent[k2] = runs

\* The position in list ps of the first record with identifier id.
FirstOf(ps, id) ==
  CHOOSE i \in 1..Len(ps) :
    ps[i].product_id = id /\ \A j \in 1..(i - 1) : ps[j].product_id # id

\* What extract_products returns apart from the count: valid records, one
\* per identifier, the first-encountered of each in order of first
\* appearance, and no block read twice.
C18_Records ==
  res # <<>> =>
    LET out == res[1].records
        ps == res[1].products
        read == res[1].processed
    IN  /\ \A i \in 1..Len(out) :
             /\ out[i].title # <<>>
             /\ out[i].price_pen.ok /\ out[i].price_pen.num > 0
             /\ out[i].url # <<>>
        /\ \A i, j \in 1..Len(out) :
             out[i].product_id = out[j].product_id => i = j
        /\ \A i \in 1..Len(ps) : \E k \in 1..Len(out) :
             out[k].product_id = ps[i].product_id
        /\ \A k \in 1..Len(out) :
             /\ \E i \in 1..Len(ps) : ps[i].product_id = out[k].product_id
             /\ out[k] = ps[FirstOf(ps, out[k].product_id)]
        /\ \A k, l \in 1..Len(out) :
             k < l => FirstOf(ps, out[k].product_id)
                        < FirstOf(ps, out[l].product_id)
        /\ \A i, j \in 1..Len(read) : read[i] = read[j] => i = j

\* C18: extract_products returns valid records, one per identifier, the
\* first-encountered of each in order, reads no block twice, and returns at
\* most the per-site maximum number of records.
C18_ExtractProducts ==
  /\ C18_Records
  /\ res # <<>> => Len(res[1].records) <= arg.max

\* The steps of the run so far are in order: one step per site, in the order
\* of SITES, then the sends, then the save after the last send.
TraceOrdered ==
  \A i \in 1..Len(trace) :
    /\ trace[i].kind \in {"skip", "fetch"} =>
         i <= Len(SITES) /\ trace[i].site = SITES[i]
    /\ trace[i].kind = "send" =>
         /\ i > Len(SITES)
         /\ i <= Len(SITES) + Len(Truncated(alerts, cap))
         /\ \A j \in 1..Len(SITES) : trace[j].kind \in {"skip", "fetch"}
    /\ trace[i].kind = "save" =>
         /\ i = Len(trace)
         /\ i = Len(SITES) + Len(Truncated(alerts, cap)) + 1
         /\ \A j \in (Len(SITES) + 1)..(i - 1) : trace[j].kind = "send"

\* C19: the steps of a run are strictly ordered.  Every site is fetched and
\* processed in configuration order before the first send, the drop
\* decisions do not change once the sends begin, and the state file is
\* written only after the last send.
C19_StrictOrder ==
  [][/\ TraceOrdered'
     /\ (pc = "send" /\ trace' # <<>>) =>
          /\ decisions' = decisions
          /\ alerts' = alerts
          /\ known_products' = known_products
     /\ disk' # disk =>
          /\ pc = "send"
          /\ Len(trace) = Len(SITES) + Len(Truncated(alerts, cap))
    ]_vars

\* A completed run: a step for each site, two sends, then the save.
C19_Witness ==
  /\ Completed
  /\ Len(trace) = Len(SITES) + 3
  /\ trace[Len(SITES) + 1].kind = "send"
  /\ trace[Len(SITES) + 2].kind = "send"
  /\ trace[Len(trace)].kind = "save"

====
